---- MODULE Spec2Model ----
(***************************************************************************)
(* Model of PageContentDumper (src/modules/dumpers/page-content.dumper.ts) *)
(* of parsed-osrs: the batch orchestrator dumpAllWikiPages, the single     *)
(* page procedure dumpWikiPageById with its retry loop, and the files it   *)
(* writes.  The wiki client (query, getRedirectsToPage), the page list and *)
(* the timer are the environment: every outcome they can produce is a      *)
(* nondeterministic input of the action that receives it.                  *)
(*                                                                         *)
(* One action is one synchronous run of the event loop: from the point a   *)
(* call or an awaited promise resumes the code up to its next await or     *)
(* return.                                                                 *)
(*                                                                         *)
(* Calls are made one after the other: a caller awaits dumpAllWikiPages or *)
(* dumpWikiPageById before it makes the next call.  Files are removed by   *)
(* nothing in the program, so no step removes one.  What the JavaScript    *)
(* runtime does with a redirect lookup that is rejected while no handler   *)
(* is attached to it is not a step of this state machine.                  *)
(***************************************************************************)
EXTENDS Integers, Sequences, FiniteSets, TLC

VARIABLES
    files,   \* the file system: path -> string written there (existing files only)
    batch,   \* the activation of dumpAllWikiPages
    inv,     \* the activations of dumpWikiPageById, one per frame
    got      \* what the last call of getPageFromId returned

vars == <<files, batch, inv, got>>

----------------------------------------------------------------------------
(* Bounds of the model *)

MaxListLen == 2     \* the page list holds at most MaxListLen entries
MaxCount == 6       \* history counters saturate at MaxCount
MaxProgressLen == 11    \* the longest page list of the progress reports
MaxClientRetries == 1   \* rate-limit failures per call of the bounded client

(* Program constants *)

maxRetries == 5
delayBetweenRetries == 3000

----------------------------------------------------------------------------
(* Values *)

\* the page identifiers of the wiki
PageIds == {1, 2}

\* the activations of dumpWikiPageById that can exist at a time
Frames == {1, 2}

\* JavaScript values are boxed so that undefined compares with any of them
Undefined == [undefined |-> TRUE]
Val(x) == [val |-> x]

Null == [null |-> TRUE]

\* JavaScript truthiness of what query resolves to
Truthy(v) == v # Undefined

WIKI_PAGES_FOLDER == "wiki-pages"

getPathFromPageId(pageId) == <<WIKI_PAGES_FOLDER, pageId, "json">>

Paths == {getPathFromPageId(p) : p \in PageIds}

\* mutant: the skip check never finds the file
existsSync_never(fs, path) == FALSE

existsSync(fs, path) == path \in DOMAIN fs

writeFileSync(fs, path, data) ==
    [q \in (DOMAIN fs) \cup {path} |-> IF q = path THEN data ELSE fs[q]]

\* the revisions the wiki serves
Revids == {42, 43}

\* what query resolves to for action=parse on page p at revision r
WikiPageResponse(p, r) ==
    [parse |-> [title        |-> Val(<<"Page", p>>),
                revid        |-> Val(r),
                displaytitle |-> Val(<<"<i>Page</i>", p>>),
                text         |-> [star |-> Val(<<"<p>x</p>", r>>)],
                wikitext     |-> [star |-> Val(<<"x", r>>)],
                properties   |-> << [name |-> "a", star |-> "1"],
                                    [name |-> "b", star |-> "2"] >>]]

QueryResponses(p) == {WikiPageResponse(p, r) : r \in Revids}

\* what getRedirectsToPage can resolve to
RedirectLists == { << >>, << [pageid |-> 9, title |-> "Alias"] >> }

\* what a failed query rejects with: an HTTP error carries response.status,
\* a transport error carries no response
HttpError(status) == [response |-> [status |-> status]]
NetworkError == [response |-> Undefined]
QueryErrors == {HttpError(429), HttpError(500), NetworkError}

\* history: what the client did, whatever the code makes of it
ErrorKind(e) == IF e = HttpError(429) THEN "rate" ELSE "err"
ResponseKind(resp) == IF resp = Undefined THEN "empty" ELSE "ok"

\* mutant: every failure of the query is taken for the rate-limit signal
IsRateLimit_any(e) == TRUE

\* e.response?.status === 429
IsRateLimit(e) ==
    IF e.response = Undefined THEN FALSE ELSE e.response.status = 429

\* mutant: the loop condition is off by one
LoopContinues_le(attempt) == attempt <= maxRetries

\* while (attempt < this.maxRetries)
LoopContinues(attempt) == attempt < maxRetries

\* result.properties.map((p) => ({name: p.name, value: p['*']}))
MapProperties(props) ==
    [k \in DOMAIN props |-> [name |-> props[k].name, value |-> props[k].star]]

\* mutant: title is taken from the canonical title
NewPage_canonicalTitle(pageId, response, redirects) ==
    LET result == response.parse IN
    << <<"pageid", Val(pageId)>>,
       <<"pagename", result.title>>,
       <<"title", result.title>>,
       <<"displaytitle", result.displaytitle>>,
       <<"revid", result.revid>>,
       <<"redirects", Val(redirects)>>,
       <<"properties", Val(MapProperties(result.properties))>>,
       <<"content", result.text.star>>,
       <<"rawContent", result.wikitext.star>> >>

\* the object literal newPage, as the sequence of its keys in insertion order
NewPage(pageId, response, redirects) ==
    LET result == response.parse IN
    << <<"pageid", Val(pageId)>>,
       <<"pagename", result.title>>,
       <<"title", result.displaytitle>>,
       <<"displaytitle", result.displaytitle>>,
       <<"revid", result.revid>>,
       <<"redirects", Val(redirects)>>,
       <<"properties", Val(MapProperties(result.properties))>>,
       <<"content", result.text.star>>,
       <<"rawContent", result.wikitext.star>> >>

\* JSON.stringify of an object: its members in insertion order, a member
\* whose value is undefined left out
JSON_stringify(obj) ==
    LET Keep(m) == m[2] # Undefined IN
    [kind |-> "json", members |-> SelectSeq(obj, Keep)]

\* JSON.parse of a file's text: the object whose keys are the members' names,
\* the last member of a name giving its value; a text that is not complete
\* JSON makes it throw a SyntaxError
JSON_parse(data) ==
    IF data.kind = "json"
        THEN LET ms == data.members
                 Last(k) == CHOOSE i \in DOMAIN ms :
                                /\ ms[i][1] = k
                                /\ \A j \in DOMAIN ms : ms[j][1] = k => j <= i
             IN  [threw |-> FALSE,
                  value |-> [k \in {ms[i][1] : i \in DOMAIN ms} |-> ms[Last(k)][2]]]
        ELSE [threw |-> TRUE, value |-> Undefined]

\* the files an earlier run can have left for page p
StoredFiles(p) ==
    {JSON_stringify(NewPage(p, resp, list)) :
        resp \in QueryResponses(p), list \in RedirectLists}

\* a file whose text was cut short: what is left is no JSON
CorruptFiles(p) ==
    {[kind |-> "truncated", members |-> SubSeq(d.members, 1, 1)] : d \in StoredFiles(p)}

\* history: the content of the file at path, undefined where none exists
Stored(fs, path) == IF path \in DOMAIN fs THEN fs[path] ELSE Undefined

\* what getWikiPageList can return
PageLists ==
    UNION {[1..n -> {[pageid |-> p] : p \in PageIds}] : n \in 0..MaxListLen}

Bump(n) == IF n < MaxCount THEN n + 1 ELSE n

----------------------------------------------------------------------------
(* dumpWikiPageById: one activation *)

\* the promise getRedirectsToPage returns
NoPromise == [state |-> "none", value |-> Undefined]
PendingPromise == [state |-> "pending", value |-> Undefined]

\* An activation.  pc, pageId, attempt, response, redirects and timer are the
\* program's state; req tells the pending query from the one before it;
\* caller says who awaits it; the other fields are history:
\* result (how it ended), log (the kinds of line it logged), queries, lookups,
\* delays, writes (how many it issued), outcomes (how its queries ended),
\* first (how its first query ended), delayMs (the durations it waited),
\* sinceQuery (the delays elapsed since its last query was issued), gaps (the
\* values sinceQuery had when a further query was issued), fetched (a query
\* returned a non-empty response), before (the file of pageId when the call
\* was made), prior (how the call before this one ended, when it was for the
\* same pageId).
IdleFrame ==
    [pc |-> "idle", pageId |-> 0, caller |-> "none", attempt |-> 0,
     response |-> Undefined, redirects |-> NoPromise, timer |-> 0, req |-> 0,
     result |-> "none", log |-> {}, queries |-> 0, lookups |-> 0,
     delays |-> 0, writes |-> 0, outcomes |-> {}, first |-> "none",
     delayMs |-> {}, sinceQuery |-> 0, gaps |-> {}, fetched |-> FALSE,
     before |-> Undefined, prior |-> "none"]

\* return (or throw) from the activation
Return(fr, result, line) ==
    [fr EXCEPT !.pc = "done", !.result = result,
               !.log = IF line = "none" THEN @ ELSE @ \cup {line}]

\* lines 74-81: this.WikiRequestService.query(...) is called and awaited
IssueQuery(fr) ==
    [fr EXCEPT !.pc = "query",
               !.req = 1 - @,
               !.queries = Bump(@),
               !.gaps = IF fr.queries > 0 THEN @ \cup {fr.sinceQuery} ELSE @,
               !.sinceQuery = 0]

\* mutant: the redirect lookup is awaited before the response is checked
AfterLoop_joinFirst(fr) == [fr EXCEPT !.pc = "join"]

\* lines 97-109: after the loop
AfterLoop(fr) ==
    IF ~Truthy(fr.response)
        THEN Return(fr, "exhausted", "failed-after-maxRetries")
        ELSE [fr EXCEPT !.pc = "join"]

\* line 72: the head of the retry loop
LoopHead(fr) ==
    IF LoopContinues(fr.attempt) THEN IssueQuery(fr) ELSE AfterLoop(fr)

\* mutant: the redirect lookup is started before the skip check
Enter_lookupFirst(p, caller, fs, old) ==
    LET fr0 == [IdleFrame EXCEPT !.pageId = p, !.caller = caller,
                                 !.before = Stored(fs, getPathFromPageId(p)),
                                 !.prior = IF old.pc = "done" /\ old.pageId = p
                                               THEN old.result ELSE "none",
                                 !.redirects = PendingPromise,
                                 !.lookups = 1]
    IN  IF existsSync(fs, getPathFromPageId(p))
            THEN Return(fr0, "skipped", "skip")
            ELSE LoopHead(fr0)

\* mutant: the skip check is made for the page of the call before
Enter_staleCheck(p, caller, fs, old) ==
    LET fr0 == [IdleFrame EXCEPT !.pageId = p, !.caller = caller,
                                 !.before = Stored(fs, getPathFromPageId(p)),
                                 !.prior = IF old.pc = "done" /\ old.pageId = p
                                               THEN old.result ELSE "none"]
    IN  IF old.pc = "done" /\ existsSync(fs, getPathFromPageId(old.pageId))
            THEN Return(fr0, "skipped", "skip")
            ELSE LoopHead([fr0 EXCEPT !.redirects = PendingPromise,
                                      !.lookups = 1])

\* lines 62-72: the call, up to its first await or its return; old is the
\* activation before it
Enter(p, caller, fs, old) ==
    LET fr0 == [IdleFrame EXCEPT !.pageId = p, !.caller = caller,
                                 !.before = Stored(fs, getPathFromPageId(p)),
                                 !.prior = IF old.pc = "done" /\ old.pageId = p
                                               THEN old.result ELSE "none"]
    IN  IF existsSync(fs, getPathFromPageId(p))
            THEN Return(fr0, "skipped", "skip")
            ELSE LoopHead([fr0 EXCEPT !.redirects = PendingPromise,
                                      !.lookups = 1])

\* mutant: a non-empty response does not leave the loop
OnQueryResolved_noBreak(fr, resp) ==
    LET kind == ResponseKind(resp)
        fr1 == [fr EXCEPT !.response = resp,
                          !.outcomes = @ \cup {kind},
                          !.first = IF @ = "none" THEN kind ELSE @,
                          !.fetched = @ \/ kind = "ok"]
    IN  LoopHead(fr1)

\* lines 83, 72: query resolved with resp
OnQueryResolved(fr, resp) ==
    LET kind == ResponseKind(resp)
        fr1 == [fr EXCEPT !.response = resp,
                          !.outcomes = @ \cup {kind},
                          !.first = IF @ = "none" THEN kind ELSE @,
                          !.fetched = @ \/ kind = "ok"]
    IN  IF Truthy(resp) THEN AfterLoop(fr1) ELSE LoopHead(fr1)

\* lines 85-93: query rejected with e
OnQueryRejected(fr, e) ==
    LET kind == ErrorKind(e)
        fr1 == [fr EXCEPT !.outcomes = @ \cup {kind},
                          !.first = IF @ = "none" THEN kind ELSE @]
    IN  IF IsRateLimit(e)
            THEN [fr1 EXCEPT !.attempt = @ + 1,
                             !.log = @ \cup {"warn"},
                             !.pc = "delay",
                             !.timer = delayBetweenRetries,
                             !.delays = Bump(@),
                             !.delayMs = @ \cup {delayBetweenRetries}]
            ELSE Return(fr1, "fatal", "error")

\* lines 142-144, 72: the timer of delay(ms) fires
OnTimer(fr) ==
    LoopHead([fr EXCEPT !.timer = 0, !.sinceQuery = Bump(@)])

\* lines 103-119: await redirects is over: it gave the list and the record
\* is written, or it threw and so does dumpWikiPageById
OnJoin(fr) ==
    IF fr.redirects.state = "resolved"
        THEN Return([fr EXCEPT !.writes = Bump(@)], "written", "none")
        ELSE Return(fr, "raised", "none")

\* mutant: a failed redirect lookup is taken for an empty list
Persist_always(fs, fr) ==
    writeFileSync(fs, getPathFromPageId(fr.pageId),
                  JSON_stringify(NewPage(fr.pageId, fr.response,
                                         IF fr.redirects.state = "resolved"
                                             THEN fr.redirects.value.val
                                             ELSE << >>)))

\* lines 103-118: the file system after await redirects is over
Persist(fs, fr) ==
    IF fr.redirects.state = "resolved"
        THEN writeFileSync(fs, getPathFromPageId(fr.pageId),
                           JSON_stringify(NewPage(fr.pageId, fr.response,
                                                  fr.redirects.value.val)))
        ELSE fs

----------------------------------------------------------------------------
(* getPageFromId *)

\* mutant: the SyntaxError of JSON.parse is not caught
getPageFromId_noCatch(fs, pageId) ==
    LET candidatePath == getPathFromPageId(pageId) IN
    IF ~existsSync(fs, candidatePath)
        THEN [pageId |-> pageId, value |-> Null, threw |-> FALSE, warned |-> FALSE]
        ELSE LET parsed == JSON_parse(fs[candidatePath]) IN
             [pageId |-> pageId, value |-> parsed.value, threw |-> parsed.threw,
              warned |-> FALSE]

\* lines 121-135: what the call returns, whether it threw and whether it
\* logged the warning
getPageFromId(fs, pageId) ==
    LET candidatePath == getPathFromPageId(pageId) IN
    IF ~existsSync(fs, candidatePath)
        THEN [pageId |-> pageId, value |-> Null, threw |-> FALSE, warned |-> FALSE]
        ELSE LET parsed == JSON_parse(fs[candidatePath]) IN
             IF parsed.threw
                 THEN [pageId |-> pageId, value |-> Null, threw |-> FALSE,
                       warned |-> TRUE]
                 ELSE [pageId |-> pageId, value |-> parsed.value, threw |-> FALSE,
                       warned |-> FALSE]

NoRead == [pageId |-> 0, value |-> Undefined, threw |-> FALSE, warned |-> FALSE]

----------------------------------------------------------------------------
(* dumpAllWikiPages: the activation *)

\* pc, i and allPages are the program's state; the other fields are history:
\* log (the reports of this run, in order), caught (errors the catch logged),
\* calls (calls of dumpWikiPageById made), fetchedOk (the pages whose content
\* query returned a non-empty response and whose redirect lookup resolved),
\* allOk (every call so far wrote or skipped), net (a remote call was issued
\* in this run), rerun (the run before this one was over the same list and
\* all of its calls wrote or skipped; "fetched" when it issued remote calls).
IdleBatch ==
    [pc |-> "idle", i |-> 0, allPages |-> << >>, log |-> << >>, caught |-> 0,
     calls |-> 0, fetchedOk |-> {}, allOk |-> TRUE, net |-> FALSE,
     rerun |-> "no"]

\* mutant: the report is due at the end of every ten pages
ProgressDue_tenth(i) == i % 10 = 9

\* line 43
ProgressDue(i) == i % 10 = 0

\* lines 42-53 and 58: the loop head, up to the await of line 53 or the end.
\* Gives the batch and the activation it calls (fr when it calls none).
BatchIter(b, fr, fs) ==
    IF b.i < Len(b.allPages)
        THEN [batch |-> [b EXCEPT !.pc = "await",
                                  !.calls = @ + 1,
                                  !.log = IF ProgressDue(b.i)
                                              THEN Append(@, <<"Request", b.i, Len(b.allPages)>>)
                                              ELSE @],
              frame |-> Enter(b.allPages[b.i + 1].pageid, "batch", fs, fr)]
        ELSE [batch |-> [b EXCEPT !.pc = "completed",
                                  !.log = Append(@, <<"Completed">>)],
              frame |-> fr]

\* mutant: the catch leaves the loop
AfterDump_break(b, fr) ==
    [b EXCEPT !.caught = IF fr.result = "raised" THEN @ + 1 ELSE @,
              !.fetchedOk = IF fr.fetched /\ fr.redirects.state = "resolved"
                                THEN @ \cup {fr.pageId} ELSE @,
              !.allOk = @ /\ fr.result \in {"written", "skipped"},
              !.net = @ \/ fr.queries > 0 \/ fr.lookups > 0,
              !.i = IF fr.result = "raised" THEN Len(b.allPages) ELSE @ + 1]

\* lines 53-57: the await of line 53 is over; a throw is caught and logged
AfterDump(b, fr) ==
    [b EXCEPT !.caught = IF fr.result = "raised" THEN @ + 1 ELSE @,
              !.fetchedOk = IF fr.fetched /\ fr.redirects.state = "resolved"
                                THEN @ \cup {fr.pageId} ELSE @,
              !.allOk = @ /\ fr.result \in {"written", "skipped"},
              !.net = @ \/ fr.queries > 0 \/ fr.lookups > 0,
              !.i = @ + 1]

----------------------------------------------------------------------------
(* The state machine *)

\* the activation the callers of this specification use
MainFrame == CHOOSE f \in Frames : TRUE

\* the files earlier runs have left
InitFiles ==
    UNION {{fs \in [S -> UNION {StoredFiles(p) : p \in PageIds}] :
               \A p \in PageIds : getPathFromPageId(p) \in S =>
                                      fs[getPathFromPageId(p)] \in StoredFiles(p)}
           : S \in SUBSET Paths}

Init ==
    /\ files \in InitFiles
    /\ batch = IdleBatch
    /\ inv = [f \in Frames |-> IdleFrame]
    /\ got = NoRead

\* nothing of the engine is running
Quiescent ==
    /\ batch.pc \in {"idle", "completed"}
    /\ \A f \in Frames : inv[f].pc \in {"idle", "done"}

\* a caller invokes dumpAllWikiPages(); getWikiPageList() returns list
DumpAllWikiPages(list) ==
    /\ Quiescent
    /\ LET b0 == [IdleBatch EXCEPT !.allPages = list,
                                   !.rerun = IF /\ batch.pc = "completed"
                                                /\ batch.allPages = list
                                                /\ batch.allOk
                                                 THEN (IF batch.net THEN "fetched"
                                                                    ELSE "skipped")
                                                 ELSE "no"]
           it == BatchIter(b0, inv[MainFrame], files)
       IN  /\ batch' = it.batch
           /\ inv' = [inv EXCEPT ![MainFrame] = it.frame]
    /\ UNCHANGED <<files, got>>

\* mutant: line 53 does not await the call
BatchResume_noAwait ==
    /\ batch.pc = "await"
    /\ inv[MainFrame].caller = "batch"
    /\ LET it == BatchIter(AfterDump(batch, inv[MainFrame]), inv[MainFrame], files)
       IN  /\ batch' = it.batch
           /\ inv' = [inv EXCEPT ![MainFrame] = it.frame]
    /\ UNCHANGED <<files, got>>

\* the call of line 53 has returned or thrown; the loop goes on
BatchResume ==
    /\ batch.pc = "await"
    /\ inv[MainFrame].pc = "done"
    /\ inv[MainFrame].caller = "batch"
    /\ LET it == BatchIter(AfterDump(batch, inv[MainFrame]), inv[MainFrame], files)
       IN  /\ batch' = it.batch
           /\ inv' = [inv EXCEPT ![MainFrame] = it.frame]
    /\ UNCHANGED <<files, got>>

\* a caller invokes dumpWikiPageById(p) and awaits it
DumpWikiPageById(p) ==
    /\ Quiescent
    /\ inv' = [inv EXCEPT ![MainFrame] = Enter(p, "direct", files, inv[MainFrame])]
    /\ batch' = IdleBatch
    /\ UNCHANGED <<files, got>>

\* the client resolves the content query with resp
QueryResolved(f, resp) ==
    /\ inv[f].pc = "query"
    /\ inv' = [inv EXCEPT ![f] = OnQueryResolved(inv[f], resp)]
    /\ UNCHANGED <<files, batch, got>>

\* the client rejects the content query with e
QueryRejected(f, e) ==
    /\ inv[f].pc = "query"
    /\ inv' = [inv EXCEPT ![f] = OnQueryRejected(inv[f], e)]
    /\ UNCHANGED <<files, batch, got>>

\* the timer set by delay fires
TimerFires(f) ==
    /\ inv[f].pc = "delay"
    /\ inv' = [inv EXCEPT ![f] = OnTimer(inv[f])]
    /\ UNCHANGED <<files, batch, got>>

\* the client settles the redirect lookup, whether or not it is awaited yet
RedirectsResolved(f, list) ==
    /\ inv[f].redirects.state = "pending"
    /\ inv' = [inv EXCEPT ![f].redirects = [state |-> "resolved", value |-> Val(list)]]
    /\ UNCHANGED <<files, batch, got>>

RedirectsRejected(f) ==
    /\ inv[f].redirects.state = "pending"
    /\ inv' = [inv EXCEPT ![f].redirects = [state |-> "rejected", value |-> Undefined]]
    /\ UNCHANGED <<files, batch, got>>

\* await redirects resumes: with the list, and the record is assembled and
\* written, or with the lookup's failure, which dumpWikiPageById throws
RedirectsAwaited(f) ==
    /\ inv[f].pc = "join"
    /\ inv[f].redirects.state \in {"resolved", "rejected"}
    /\ files' = Persist(files, inv[f])
    /\ inv' = [inv EXCEPT ![f] = OnJoin(inv[f])]
    /\ UNCHANGED <<batch, got>>

Next ==
    \/ \E list \in PageLists : DumpAllWikiPages(list)
    \/ BatchResume
    \/ \E p \in PageIds : DumpWikiPageById(p)
    \/ \E f \in Frames :
        \/ \E resp \in QueryResponses(inv[f].pageId) \cup {Undefined} : QueryResolved(f, resp)
        \/ \E e \in QueryErrors : QueryRejected(f, e)
        \/ TimerFires(f)
        \/ \E list \in RedirectLists : RedirectsResolved(f, list)
        \/ RedirectsRejected(f)
        \/ RedirectsAwaited(f)

Spec == Init /\ [][Next]_vars

----------------------------------------------------------------------------
(* The reader: getPageFromId beside calls of dumpWikiPageById, over files *)
(* that earlier runs wrote and files that were cut short                  *)

InitFilesRead ==
    UNION {{fs \in [S -> UNION {StoredFiles(p) \cup CorruptFiles(p) : p \in PageIds}] :
               \A p \in PageIds : getPathFromPageId(p) \in S =>
                   fs[getPathFromPageId(p)] \in StoredFiles(p) \cup CorruptFiles(p)}
           : S \in SUBSET Paths}

InitRead ==
    /\ files \in InitFilesRead
    /\ batch = IdleBatch
    /\ inv = [f \in Frames |-> IdleFrame]
    /\ got = NoRead

\* a caller invokes getPageFromId(p); it is synchronous, so it can run
\* between any two steps of a call of dumpWikiPageById
GetPageFromId(p) ==
    /\ got' = getPageFromId(files, p)
    /\ UNCHANGED <<files, batch, inv>>

NextRead ==
    \/ \E p \in PageIds : DumpWikiPageById(p)
    \/ \E p \in PageIds : GetPageFromId(p)
    \/ \E f \in Frames :
        \/ \E resp \in QueryResponses(inv[f].pageId) \cup {Undefined} : QueryResolved(f, resp)
        \/ \E e \in QueryErrors : QueryRejected(f, e)
        \/ TimerFires(f)
        \/ \E list \in RedirectLists : RedirectsResolved(f, list)
        \/ RedirectsRejected(f)
        \/ RedirectsAwaited(f)

ReadSpec == InitRead /\ [][NextRead]_vars

----------------------------------------------------------------------------
(* Two callers: a second call of dumpWikiPageById for the page of a call  *)
(* that is suspended at one of its awaits                                 *)

\* the steps of the client and of the event loop on activation f, with a
\* client that rate-limits at most MaxClientRetries queries of a call and
\* returns no empty response
BoundedClient(f) ==
    \/ \E resp \in QueryResponses(inv[f].pageId) : QueryResolved(f, resp)
    \/ \E e \in QueryErrors :
        /\ ErrorKind(e) = "rate" => inv[f].attempt < MaxClientRetries
        /\ QueryRejected(f, e)
    \/ TimerFires(f)
    \/ \E list \in RedirectLists : RedirectsResolved(f, list)
    \/ RedirectsRejected(f)
    \/ RedirectsAwaited(f)

\* the activation of the second caller
OverlapFrame == CHOOSE f \in Frames : f # MainFrame

\* a second caller invokes dumpWikiPageById for the page of the first call,
\* which is at its content query, its delay or its await of the redirects
DumpWikiPageByIdAgain ==
    /\ inv[MainFrame].pc \in {"query", "delay", "join"}
    /\ inv[OverlapFrame].pc = "idle"
    /\ inv' = [inv EXCEPT ![OverlapFrame] =
                   Enter(inv[MainFrame].pageId, "direct", files, inv[OverlapFrame])]
    /\ UNCHANGED <<files, batch, got>>

NextOverlap ==
    \/ \E p \in PageIds : DumpWikiPageById(p)
    \/ DumpWikiPageByIdAgain
    \/ \E f \in Frames : BoundedClient(f)

OverlapSpec == Init /\ [][NextOverlap]_vars

----------------------------------------------------------------------------
(* dumpAllWikiPages over lists long enough for several progress reports   *)

\* what getWikiPageList can return: up to MaxProgressLen entries of one page
ProgressLists ==
    UNION {[1..n -> {[pageid |-> p]}] : n \in 0..MaxProgressLen, p \in PageIds}

NextProgress ==
    \/ \E list \in ProgressLists : DumpAllWikiPages(list)
    \/ BatchResume
    \/ \E f \in Frames : BoundedClient(f)

ProgressSpec == Init /\ [][NextProgress]_vars

----------------------------------------------------------------------------
\* The client returns from every call, a set timer fires, and the event loop
\* runs every continuation that is ready.
Fairness ==
    /\ WF_vars(BatchResume)
    /\ \A f \in Frames :
        /\ WF_vars(\/ \E resp \in QueryResponses(inv[f].pageId) \cup {Undefined} :
                         QueryResolved(f, resp)
                   \/ \E e \in QueryErrors : QueryRejected(f, e))
        /\ WF_vars(TimerFires(f))
        /\ WF_vars(\/ \E list \in RedirectLists : RedirectsResolved(f, list)
                   \/ RedirectsRejected(f))
        /\ WF_vars(RedirectsAwaited(f))

FairSpec == Spec /\ Fairness

----------------------------------------------------------------------------
(* Properties *)

PathOf(fr) == getPathFromPageId(fr.pageId)
Active(fr) == fr.pc # "idle"
Ended(fr) == fr.pc = "done"
NetCalls(fr) == fr.queries + fr.lookups

\* C1  Retry bound.  In a call made when no file of the page exists and all
\* of whose content queries fail with status 429: a 3000 ms delay, and one
\* only, has elapsed between every two consecutive queries; no more than 5
\* queries are issued; and once the call has returned it has issued exactly 5
\* queries, has returned (not thrown) with the retry-exhausted report, has
\* written nothing, and no file of the page exists.
C1_RetryBound ==
    \A f \in Frames :
        LET fr == inv[f] IN
        (Active(fr) /\ fr.before = Undefined /\ fr.outcomes \subseteq {"rate"}) =>
            /\ fr.queries <= 5
            /\ fr.gaps \subseteq {1}
            /\ fr.delayMs \subseteq {3000}
            /\ fr.delays = fr.attempt
            /\ Ended(fr) =>
                /\ fr.queries = 5
                /\ fr.result = "exhausted"
                /\ fr.writes = 0
                /\ ~existsSync(files, PathOf(fr))

C1_Witness ==
    \E f \in Frames :
        /\ Ended(inv[f])
        /\ inv[f].before = Undefined
        /\ inv[f].outcomes = {"rate"}
        /\ inv[f].queries = 5
        /\ inv[f].gaps = {1}
        /\ ~existsSync(files, PathOf(inv[f]))

\* C2  Attempt bound for any client.  Whatever the content query does on
\* each call, one call of dumpWikiPageById issues at most 5 content queries.
C2_AttemptBound ==
    \A f \in Frames : inv[f].queries <= 5

\* C3  Batch completion.  When the client returns from every content query
\* and every redirect lookup, a started dumpAllWikiPages reaches its final
\* 'Completed' report.
C3_BatchCompletes ==
    (batch.pc = "await") ~> (batch.pc = "completed")

\* C4  Skip correctness.  A call made when a file of the page exists issues
\* no content query and no redirect lookup, performs no delay and no write,
\* returns at once, and the stored file is what it was.
C4_SkipCorrectness ==
    \A f \in Frames :
        LET fr == inv[f] IN
        (Active(fr) /\ fr.before # Undefined) =>
            /\ fr.queries = 0
            /\ fr.lookups = 0
            /\ fr.redirects.state = "none"
            /\ fr.delays = 0
            /\ fr.writes = 0
            /\ Ended(fr) /\ fr.result = "skipped"
            /\ Stored(files, PathOf(fr)) = fr.before

C4_Witness ==
    \E f \in Frames :
        /\ Ended(inv[f])
        /\ inv[f].before # Undefined
        /\ inv[f].result = "skipped"
        /\ Stored(files, PathOf(inv[f])) = inv[f].before

\* C5 as stated  Idempotence.  Of two calls in sequence for the same page,
\* the second performs no network I/O and leaves the page's persisted state
\* as the first left it.
C5_Idempotence_AsStated ==
    \A f \in Frames :
        LET fr == inv[f] IN
        (Ended(fr) /\ fr.prior # "none") =>
            /\ NetCalls(fr) = 0
            /\ Stored(files, PathOf(fr)) = fr.before

\* C5 amended  Of two calls in sequence for the same page: when the first
\* ended with a file of the page stored (it wrote it or found it), the second
\* performs no network I/O and leaves the page's persisted state as the first
\* left it; when the first ended without a file (it failed), the second
\* starts the fetch again with one redirect lookup and at least one query.
C5_Idempotence ==
    \A f \in Frames :
        LET fr == inv[f] IN
        (Ended(fr) /\ fr.prior # "none") =>
            /\ (fr.prior \in {"written", "skipped"}) <=> (fr.before # Undefined)
            /\ IF fr.prior \in {"written", "skipped"}
                   THEN /\ NetCalls(fr) = 0
                        /\ Stored(files, PathOf(fr)) = fr.before
                   ELSE /\ fr.lookups = 1
                        /\ fr.queries >= 1

C5_Witness ==
    \E f \in Frames :
        /\ Ended(inv[f])
        /\ inv[f].prior = "written"
        /\ inv[f].result = "skipped"
        /\ NetCalls(inv[f]) = 0

\* the page identifier a stored record carries
RecordPageId(data) == data.members[1][2].val

\* C6  Write-once records.  No step of any sequence of dump passes removes a
\* file or changes the content of a file that exists, and the record of a
\* page identifier is stored at the one location of that identifier.
C6_WriteOnce ==
    [][/\ \A path \in DOMAIN files :
            path \in DOMAIN files' /\ files'[path] = files[path]
       /\ \A path \in DOMAIN files' :
            path = getPathFromPageId(RecordPageId(files'[path]))]_vars

\* a batch over a list holding page 1 twice wrote it once and skipped it once
C6_Witness ==
    /\ batch.pc = "completed"
    /\ Len(batch.allPages) = 2
    /\ batch.allPages[1] = batch.allPages[2]
    /\ batch.fetchedOk # {}
    /\ inv[MainFrame].prior = "written"
    /\ inv[MainFrame].result = "skipped"

\* C7  Batch resilience.  Every call of dumpWikiPageById that is over,
\* however it ended, is followed by the call for the next index: a run is at
\* index calls - 1 while it awaits, ends only with all N calls made, and at
\* its end a file is stored for every page whose fetch succeeded.
C7_BatchResilience ==
    /\ batch.pc = "await" =>
        /\ batch.calls = batch.i + 1
        /\ batch.i < Len(batch.allPages)
        /\ batch.caught <= batch.i
    /\ batch.pc = "completed" =>
        /\ batch.calls = Len(batch.allPages)
        /\ batch.i = Len(batch.allPages)
        /\ \A p \in batch.fetchedOk : existsSync(files, getPathFromPageId(p))

\* the call for page 1 threw, the catch logged it, and page 2 was still
\* fetched and stored
C7_Witness ==
    /\ batch.pc = "completed"
    /\ batch.allPages = << [pageid |-> 1], [pageid |-> 2] >>
    /\ batch.caught = 1
    /\ batch.fetchedOk = {2}
    /\ ~existsSync(files, getPathFromPageId(1))
    /\ existsSync(files, getPathFromPageId(2))
    /\ inv[MainFrame].result = "written"

\* C8  Non-retry fatal.  A call whose first content query fails with an
\* error that is not the rate-limit signal has made exactly 1 query and no
\* delay, has returned without throwing, and has written no file.
C8_NonRetryFatal ==
    \A f \in Frames :
        LET fr == inv[f] IN
        fr.first = "err" =>
            /\ Ended(fr)
            /\ fr.result = "fatal"
            /\ fr.queries = 1
            /\ fr.delays = 0
            /\ fr.timer = 0
            /\ fr.writes = 0
            /\ ~existsSync(files, PathOf(fr))

C8_Witness ==
    \E f \in Frames :
        /\ Ended(inv[f])
        /\ inv[f].first = "err"
        /\ inv[f].queries = 1
        /\ inv[f].result = "fatal"
        /\ "error" \in inv[f].log

\* C9  Only successful pages are persisted.  The file of a call's page
\* differs from what it was when the call was made only if a content query of
\* that call returned a non-empty response and its redirect lookup resolved;
\* a call that ended fatal, retry-exhausted or throwing left no file.
C9_OnlySuccessPersisted ==
    \A f \in Frames :
        LET fr == inv[f] IN
        Active(fr) =>
            /\ (Stored(files, PathOf(fr)) # fr.before \/ fr.writes > 0) =>
                /\ fr.fetched
                /\ fr.redirects.state = "resolved"
                /\ fr.result = "written"
            /\ fr.result \in {"fatal", "exhausted", "raised"} =>
                ~existsSync(files, PathOf(fr))

\* a content query returned a response, the lookup failed, nothing is stored
C9_Witness ==
    \E f \in Frames :
        /\ Ended(inv[f])
        /\ inv[f].fetched
        /\ inv[f].result = "raised"
        /\ ~existsSync(files, PathOf(inv[f]))

\* C10  Restart safety.  A call made by the batch issues content queries and
\* redirect lookups only when no file of its page existed when it was made;
\* a run over the list of the run before it, all of whose calls wrote or
\* skipped, issues no remote call.
C10_RestartSafety ==
    /\ \A f \in Frames :
        (inv[f].caller = "batch" /\ NetCalls(inv[f]) > 0) => inv[f].before = Undefined
    /\ batch.rerun # "no" =>
        /\ ~batch.net
        /\ batch.pc = "await" => NetCalls(inv[MainFrame]) = 0

\* the run before fetched pages; this one, over the same two pages, is over
C10_Witness ==
    /\ batch.pc = "completed"
    /\ batch.rerun = "fetched"
    /\ Len(batch.allPages) = 2
    /\ batch.allPages[1] # batch.allPages[2]
    /\ ~batch.net

\* the record the file at path holds
RecordAt(path) == JSON_parse(files[path]).value

\* C11 as stated  Record shape.  The record a call has persisted for page p
\* from a response with title T, displaytitle D, revid R, properties
\* [{name, '*'}], text C and wikitext W and the lookup's result RD is
\* {pageId: p, pagename: T, title: D, displaytitle: D, revid: R, redirects:
\* RD, properties: [{name, value}], content: C, rawContent: W}.
C11_RecordShape_AsStated ==
    \A f \in Frames :
        LET fr == inv[f]
            r == fr.response.parse
        IN  (Ended(fr) /\ fr.result = "written") =>
                /\ existsSync(files, PathOf(fr))
                /\ ~JSON_parse(files[PathOf(fr)]).threw
                /\ RecordAt(PathOf(fr)) =
                     [pageId       |-> Val(fr.pageId),
                      pagename     |-> r.title,
                      title        |-> r.displaytitle,
                      displaytitle |-> r.displaytitle,
                      revid        |-> r.revid,
                      redirects    |-> fr.redirects.value,
                      properties   |-> Val([k \in 1..Len(r.properties) |->
                                               [name  |-> r.properties[k].name,
                                                value |-> r.properties[k].star]]),
                      content      |-> r.text.star,
                      rawContent   |-> r.wikitext.star]

\* C11 amended  The same record, its first field named pageid (lower case),
\* as the code and the page list name it: {pageid: p, pagename: T, title: D,
\* displaytitle: D, revid: R, redirects: RD, properties: [{name, value}] in
\* the same order and length, content: C, rawContent: W}.
C11_RecordShape ==
    \A f \in Frames :
        LET fr == inv[f]
            r == fr.response.parse
        IN  (Ended(fr) /\ fr.result = "written") =>
                /\ existsSync(files, PathOf(fr))
                /\ ~JSON_parse(files[PathOf(fr)]).threw
                /\ RecordAt(PathOf(fr)) =
                     [pageid       |-> Val(fr.pageId),
                      pagename     |-> r.title,
                      title        |-> r.displaytitle,
                      displaytitle |-> r.displaytitle,
                      revid        |-> r.revid,
                      redirects    |-> fr.redirects.value,
                      properties   |-> Val([k \in 1..Len(r.properties) |->
                                               [name  |-> r.properties[k].name,
                                                value |-> r.properties[k].star]]),
                      content      |-> r.text.star,
                      rawContent   |-> r.wikitext.star]

C11_Witness ==
    \E f \in Frames :
        /\ Ended(inv[f])
        /\ inv[f].result = "written"
        /\ inv[f].redirects.value # Val(<< >>)
        /\ Len(RecordAt(PathOf(inv[f])).properties.val) = 2
        /\ RecordAt(PathOf(inv[f])).title # RecordAt(PathOf(inv[f])).pagename

\* C12  Record accessor.  A call of getPageFromId(p) returns null when no
\* file of p exists, returns null without throwing (and logs a warning) when
\* the file's text fails to deserialize, and returns the deserialized record
\* otherwise; it issues no network call and leaves every file, and every
\* call of the dumper, as it was.
C12_RecordAccessor ==
    [][got' # got =>
        LET path == getPathFromPageId(got'.pageId) IN
        /\ files' = files /\ inv' = inv /\ batch' = batch
        /\ ~got'.threw
        /\ IF path \notin DOMAIN files
               THEN got'.value = Null /\ ~got'.warned
               ELSE IF files[path].kind # "json"
                        THEN got'.value = Null /\ got'.warned
                        ELSE /\ got'.value = RecordAt(path)
                             /\ got'.value.pageid = Val(got'.pageId)
                             /\ ~got'.warned]_vars

\* a read of a file that was cut short has returned null and logged
C12_Witness ==
    /\ got.pageId # 0
    /\ got.warned
    /\ got.value = Null
    /\ ~got.threw
    /\ existsSync(files, getPathFromPageId(got.pageId))

\* C13  All per-page failures are handled.  A redirect lookup that failed,
\* of a call that is over, was joined: the await of line 109 observed the
\* failure and threw it to the caller (the catch of dumpAllWikiPages).
C13_AllFailuresHandled ==
    \A f \in Frames :
        (Ended(inv[f]) /\ inv[f].redirects.state = "rejected") =>
            inv[f].result = "raised"

\* the calls of the batch that are between their first await and their end
InFlight == {f \in Frames : inv[f].caller = "batch" /\ inv[f].pc \in {"query", "delay", "join"}}

\* C14  Strictly sequential batch in list order.  The batch moves on only
\* from a call that is over (no query, delay, await or write of it is left),
\* it moves to the next index, the call it awaits is the one for the page at
\* its index, and no two calls of it are in flight together.
C14_Sequential ==
    [][/\ (batch.pc = "await" /\ batch' # batch) =>
            /\ Ended(inv[MainFrame])
            /\ inv[MainFrame].timer = 0
            /\ batch'.i = batch.i + 1
            /\ batch'.allPages = batch.allPages
       /\ batch'.pc = "await" =>
            /\ batch'.i < Len(batch'.allPages)
            /\ batch'.calls = batch'.i + 1
            /\ inv'[MainFrame].caller = "batch"
            /\ inv'[MainFrame].pageId = batch'.allPages[batch'.i + 1].pageid
       /\ Cardinality({f \in Frames : inv'[f].caller = "batch"
                                      /\ inv'[f].pc \in {"query", "delay", "join"}}) <= 1]_vars

\* the call for the first of two different pages is over, the call for the
\* second has a query in flight
C14_Witness ==
    /\ batch.pc = "await"
    /\ batch.i = 1
    /\ batch.allPages[1] # batch.allPages[2]
    /\ inv[MainFrame].pc = "query"
    /\ inv[MainFrame].pageId = batch.allPages[2].pageid
    /\ InFlight = {MainFrame}

\* C15  Fixed delay per retry.  In any call and for any client, exactly one
\* delay has elapsed between every two consecutive content queries, every
\* delay is of 3000 ms, and there are as many delays as rate-limit failures.
C15_FixedDelay ==
    \A f \in Frames :
        /\ inv[f].gaps \subseteq {1}
        /\ inv[f].delayMs \subseteq {3000}
        /\ inv[f].delays = inv[f].attempt

\* C16  Redirect lookup overlap and join order.  A call that did not skip
\* has issued exactly one redirect lookup, and has it issued whenever a
\* content query is; it awaits the lookup only after a content query has
\* returned a non-empty response; it writes only after the lookup resolved.
C16_JoinOrder ==
    \A f \in Frames :
        LET fr == inv[f] IN
        (Active(fr) /\ fr.before = Undefined) =>
            /\ fr.lookups = 1
            /\ fr.queries >= 1
            /\ fr.redirects.state # "none"
            /\ (fr.pc = "join" \/ fr.result \in {"written", "raised"}) =>
                /\ fr.fetched
                /\ ResponseKind(fr.response) = "ok"
            /\ fr.writes > 0 =>
                /\ fr.redirects.state = "resolved"
                /\ fr.result = "written"

\* the lookup has been in flight over a retry and is awaited, still pending
C16_Witness ==
    \E f \in Frames :
        /\ inv[f].pc = "join"
        /\ inv[f].attempt > 0
        /\ inv[f].redirects.state = "pending"
        /\ inv[f].lookups = 1

\* C17  Success after transient failures.  A call whose content query failed
\* k times with the rate-limit signal and then returned a non-empty response
\* has k <= 4, has issued exactly k + 1 queries and issues no more; once it is
\* over it has stored the record if the lookup resolved (and has thrown if
\* the lookup failed).
C17_SuccessAfterTransient ==
    \A f \in Frames :
        LET fr == inv[f] IN
        (fr.fetched /\ fr.outcomes \subseteq {"rate", "ok"}) =>
            /\ fr.attempt <= 4
            /\ fr.queries = fr.attempt + 1
            /\ fr.pc \in {"join", "done"}
            /\ Ended(fr) =>
                IF fr.redirects.state = "resolved"
                    THEN /\ fr.result = "written"
                         /\ existsSync(files, PathOf(fr))
                         /\ RecordAt(PathOf(fr)).revid = fr.response.parse.revid
                    ELSE fr.result = "raised"

C17_Witness ==
    \E f \in Frames :
        /\ Ended(inv[f])
        /\ inv[f].result = "written"
        /\ inv[f].outcomes = {"rate", "ok"}
        /\ inv[f].attempt = 4
        /\ inv[f].queries = 5

ExhaustedReport(fr) == "failed-after-maxRetries" \in fr.log

\* C18  Distinct failure signals.  A call that is over has emitted the
\* retry-exhausted report if and only if it made exactly 5 content queries
\* that all failed with the rate-limit signal; a call ended by another error
\* has not emitted it; a call that stored a record emitted no failure report.
C18_DistinctSignals ==
    \A f \in Frames :
        LET fr == inv[f] IN
        Ended(fr) =>
            /\ ExhaustedReport(fr) <=> (fr.queries = 5 /\ fr.outcomes = {"rate"})
            /\ fr.result = "fatal" => ~ExhaustedReport(fr)
            /\ fr.result = "written" => ~ExhaustedReport(fr) /\ "error" \notin fr.log

\* C19  Single writer under overlap.  Of two calls of dumpWikiPageById for
\* the same page that overlap at their awaits, at most one writes the file.
C19_SingleWriter ==
    \A p \in PageIds :
        Cardinality({f \in Frames : inv[f].pageId = p /\ inv[f].writes > 0}) <= 1

\* the progress reports of the first n indices divisible by 10
Reports(n) == [k \in 1..n |-> <<"Request", 10 * (k - 1), Len(batch.allPages)>>]

\* C20  Progress reports.  A run over N pages has reported, when the call for
\* index i is awaited, exactly the indices 0, 10, .. up to i, each with the
\* total N; when it is over it has emitted ceil(N/10) progress reports and
\* then one completion report.
C20_ProgressReports ==
    /\ batch.pc = "await" =>
        batch.log = Reports((batch.i \div 10) + 1)
    /\ batch.pc = "completed" =>
        batch.log = Append(Reports((Len(batch.allPages) + 9) \div 10), <<"Completed">>)

C20_Witness ==
    /\ batch.pc = "completed"
    /\ Len(batch.allPages) = 11
    /\ batch.log = << <<"Request", 0, 11>>, <<"Request", 10, 11>>, <<"Completed">> >>

====
